---------------------------- MODULE Spec2Model ----------------------------
(***************************************************************************)
(* A model of log_parser.py: the parser of unicycler.log files.            *)
(*                                                                         *)
(* A line of a log is a sequence of characters, each character a string.   *)
(* A token is a sequence of characters, a token list a sequence of tokens. *)
(* Python's None is NoneVal, a one-character pseudo token no text of a log *)
(* can spell.  A log is read as Python iterates over a text file: every    *)
(* line ends with "\n", except possibly the last one of the file.          *)
(***************************************************************************)
EXTENDS Integers, Sequences, FiniteSets, TLC

VARIABLES
    session,                 \* which function runs: molecules_summary, assemblies_summary
    pc,                      \* position in the running function
    run,                     \* index in file_addresses of the run being processed
    nread,                   \* lines consumed so far in the session, from all logs
    eof,                     \* the open log_file is exhausted
    line,                    \* the dispatch loop's current line
    headers,                 \* molecules_summary: headers
    target,                  \* which table the running extractor call is for
    extracted_table,         \* extractor: extracted_table
    ret,                     \* extractor: the value it returns (final)
    status,                  \* molecules_summary: status
    depth,                   \* molecules_summary: depth
    best,                    \* assemblies_summary: best
    alignment_summary_list,  \* assemblies_summary: alignment_summary_list
    alignment_local,         \* extract_alignment_summary: alignment_summary_list
    outfile,                 \* rows of the csv file the session appends to
    error,                   \* the exception that ended the session and where it was raised
    body,                    \* history: lines consumed by the running extractor call
    kmer_seen,               \* history: this run's log had a K-mer header line
    alignment_from,          \* history: the run whose log alignment_summary_list is from
    taken,                   \* history: the line the open log gave last, and the function that took it
    tk_words,                \* tokenizer harness: the words of the line
    tk_gaps,                 \* tokenizer harness: the whitespace around the words
    tk_tokens                \* tokenizer harness: the tokens RowTokenizer returned

vars == << session, pc, run, nread, eof, line, headers, target, extracted_table,
           ret, status, depth, best, alignment_summary_list, alignment_local,
           outfile, error, body, kmer_seen, alignment_from, taken,
           tk_words, tk_gaps, tk_tokens >>

---------------------------------------------------------------------------
(* Bounds of the model.                                                    *)

MaxRuns == 2

MaxMolLines == 7

\* The lines of one table of a molecules log, the blank line not counted.
MaxRows == 3

MaxAsmLines == 11

MaxAlignLines == 4

MaxWords == 3

---------------------------------------------------------------------------
(* Characters.                                                             *)

SP == " "

TAB == "\t"

NL == "\n"

\* The characters \s matches and str.strip() removes.
Whitespace == {SP, TAB, NL}

Digits == {"0", "1", "2", "3", "4", "5", "6", "7", "8", "9"}

\* U+00BD, VULGAR FRACTION ONE HALF: str.isnumeric() is True, it is no digit.
OneHalf == "U+00BD"

\* The characters str.isnumeric() accepts.
NumericChars == Digits \cup {OneHalf}

NoneVal == << "<None>" >>

\* A local name that was never assigned.
Unbound == << << "<unbound>" >> >>

---------------------------------------------------------------------------
(* Sequences of characters.                                                *)

Max(a, b) == IF a >= b THEN a ELSE b

\* s[i..] starts with p.
IsPrefixAt(s, p, i) ==
    /\ i >= 1
    /\ i + Len(p) - 1 <= Len(s)
    /\ \A j \in 1..Len(p) : s[i + j - 1] = p[j]

\* Python's `p in s`.
Contains(s, p) == \E i \in 1..(Len(s) - Len(p) + 1) : IsPrefixAt(s, p, i)

\* The least index >= i at which p occurs in s, 0 when there is none.
FindFrom(s, p, i) ==
    LET hits == {k \in i..(Len(s) - Len(p) + 1) : IsPrefixAt(s, p, k)}
    IN  IF hits = {} THEN 0 ELSE CHOOSE k \in hits : \A m \in hits : k <= m

\* re.sub(p, r, s) for a literal pattern p: the non-overlapping occurrences
\* of p, leftmost first, are replaced by r.
RECURSIVE ReSubFrom(_, _, _, _)
ReSubFrom(s, p, r, i) ==
    IF i > Len(s) THEN << >>
    ELSE IF IsPrefixAt(s, p, i) THEN r \o ReSubFrom(s, p, r, i + Len(p))
    ELSE << s[i] >> \o ReSubFrom(s, p, r, i + 1)

ReSub(s, p, r) == ReSubFrom(s, p, r, 1)

\* str.strip(): the whitespace before the first and after the last character
\* that is not whitespace is dropped.
RECURSIVE FirstInk(_, _)
FirstInk(s, i) ==
    IF i > Len(s) THEN Len(s) + 1
    ELSE IF s[i] \notin Whitespace THEN i ELSE FirstInk(s, i + 1)

RECURSIVE LastInk(_, _)
LastInk(s, i) ==
    IF i < 1 THEN 0
    ELSE IF s[i] \notin Whitespace THEN i ELSE LastInk(s, i - 1)

Strip(s) == SubSeq(s, FirstInk(s, 1), LastInk(s, Len(s)))

\* re.sub('\s+', '\t', s): every maximal run of whitespace becomes one tab.
RECURSIVE CollapseFrom(_, _)
CollapseFrom(s, i) ==
    IF i > Len(s) THEN << >>
    ELSE IF s[i] \in Whitespace
         THEN IF i > 1 /\ s[i - 1] \in Whitespace
              THEN CollapseFrom(s, i + 1)
              ELSE << TAB >> \o CollapseFrom(s, i + 1)
         ELSE << s[i] >> \o CollapseFrom(s, i + 1)

CollapseWs(s) == CollapseFrom(s, 1)

\* str.split('\t'): the pieces between the tabs, empty pieces kept.
RECURSIVE SplitFrom(_, _, _)
SplitFrom(s, i, piece) ==
    IF i > Len(s) THEN << piece >>
    ELSE IF s[i] = TAB THEN << piece >> \o SplitFrom(s, i + 1, << >>)
    ELSE SplitFrom(s, i + 1, Append(piece, s[i]))

SplitTab(s) == SplitFrom(s, 1, << >>)

\* re.sub(r'([^\s])(\s)([^\s])', r'\1_\3', s): a single whitespace character
\* between two other characters becomes '_'; matches do not overlap.
RECURSIVE UnderscoreFrom(_, _)
UnderscoreFrom(s, i) ==
    IF i > Len(s) THEN << >>
    ELSE IF /\ i + 2 <= Len(s)
            /\ s[i] \notin Whitespace
            /\ s[i + 1] \in Whitespace
            /\ s[i + 2] \notin Whitespace
         THEN << s[i], "_", s[i + 2] >> \o UnderscoreFrom(s, i + 3)
         ELSE << s[i] >> \o UnderscoreFrom(s, i + 1)

\* re.search of a pattern p1.*p2.*...: the parts in this order, nothing but
\* non-newline characters between them; `from` is where the search resumes.
RECURSIVE MatchChain(_, _, _)
MatchChain(s, parts, from) ==
    IF parts = << >> THEN TRUE
    ELSE LET i == FindFrom(s, Head(parts), from)
         IN  /\ i # 0
             /\ \A j \in from..(i - 1) : s[j] # NL
             /\ MatchChain(s, Tail(parts), i + Len(Head(parts)))

---------------------------------------------------------------------------
(* Words of the program text.                                              *)

W_Component == << "C", "o", "m", "p", "o", "n", "e", "n", "t" >>
W_Segments == << "S", "e", "g", "m", "e", "n", "t", "s" >>
W_Segment == << "S", "e", "g", "m", "e", "n", "t" >>
W_Links == << "L", "i", "n", "k", "s" >>
W_Length == << "L", "e", "n", "g", "t", "h" >>
W_N50 == << "N", "5", "0" >>
W_Longest == << "L", "o", "n", "g", "e", "s", "t" >>
W_segment == << "s", "e", "g", "m", "e", "n", "t" >>
W_Status == << "S", "t", "a", "t", "u", "s" >>
W_Depth == << "D", "e", "p", "t", "h" >>
W_Starting == << "S", "t", "a", "r", "t", "i", "n", "g" >>
W_gene == << "g", "e", "n", "e" >>
W_Position == << "P", "o", "s", "i", "t", "i", "o", "n" >>
W_Strand == << "S", "t", "r", "a", "n", "d" >>
W_Identity == << "I", "d", "e", "n", "t", "i", "t", "y" >>
W_Coverage == << "C", "o", "v", "e", "r", "a", "g", "e" >>
W_Kmer == << "K", "-", "m", "e", "r" >>
W_Contigs == << "C", "o", "n", "t", "i", "g", "s" >>
W_Dead == << "D", "e", "a", "d" >>
W_ends == << "e", "n", "d", "s" >>
W_Score == << "S", "c", "o", "r", "e" >>
W_Read == << "R", "e", "a", "d" >>
W_alignment == << "a", "l", "i", "g", "n", "m", "e", "n", "t" >>
W_summary == << "s", "u", "m", "m", "a", "r", "y" >>
W_none == << "n", "o", "n", "e" >>
W_found == << "f", "o", "u", "n", "d" >>
W_best == << "b", "e", "s", "t" >>
W_dashes == << "-", "-" >>

Longest_segment == W_Longest \o << "_" >> \o W_segment
Starting_gene == W_Starting \o << "_" >> \o W_gene
none_found == W_none \o << "_" >> \o W_found


---------------------------------------------------------------------------
(* The tokenizers.                                                         *)

\* A slip of line 184: the row is not stripped.
RowTokenizer_NoStrip(row) ==
    SplitTab(CollapseWs(ReSub(row, W_none \o << SP >> \o W_found, none_found)))

\* extractor, lines 180-184: 'none found' becomes 'none_found', the row is
\* stripped, its whitespace runs become tabs and it is split on the tabs.
RowTokenizer(row) ==
    LET sub == IF Contains(row, W_none \o << SP >> \o W_found)
               THEN ReSub(row, W_none \o << SP >> \o W_found, none_found)
               ELSE row
    IN  SplitTab(CollapseWs(Strip(sub)))

\* molecules_summary, lines 347-352 and 359-364: the header line's two-word
\* label becomes one token, then the line is split as a row is.
HeaderTokenizer(header_line, phrase, token) ==
    SplitTab(CollapseWs(Strip(ReSub(header_line, phrase, token))))

\* A slip of line 396: the line is not stripped.
BestTokenizer_NoStrip(best_line) == SplitTab(CollapseWs(best_line))

\* extract_best_k_mer, lines 395-396.
BestTokenizer(best_line) == SplitTab(CollapseWs(Strip(best_line)))

\* extract_alignment_summary, lines 429-433: no strip.
AlignmentTokenizer(row) == SplitTab(CollapseWs(UnderscoreFrom(row, 1)))

\* str.isdecimal() in the place of str.isnumeric().
IsNumeric_DigitsOnly(tok) == tok # << >> /\ \A i \in 1..Len(tok) : tok[i] \in Digits

\* str.isnumeric(): a non-empty string of numeric characters.
IsNumeric(tok) == tok # << >> /\ \A i \in 1..Len(tok) : tok[i] \in NumericChars

\* The header patterns of the two dispatch loops.
IsStatusHeader(l) ==
    IsPrefixAt(l, W_Component, 1) /\ MatchChain(l, << W_Status >>, Len(W_Component) + 1)

IsDepthHeader(l) ==
    IsPrefixAt(l, W_Segment, 1) /\ MatchChain(l, << W_Depth >>, Len(W_Segment) + 1)

IsKmerHeader(l) ==
    /\ IsPrefixAt(l, W_Kmer, 1)
    /\ MatchChain(l, << W_Contigs, W_Dead \o << SP >> \o W_ends, W_Score >>,
                  Len(W_Kmer) + 1)

IsAlignmentHeader(l) ==
    Contains(l, W_Read \o << SP >> \o W_alignment \o << SP >> \o W_summary)

---------------------------------------------------------------------------
(* Rows and tables.                                                        *)

\* itertools.zip_longest(headers, line_list): the shorter side padded with None.
ZipLongest(hs, toks) ==
    [i \in 1..Max(Len(hs), Len(toks)) |->
        << IF i <= Len(hs) THEN hs[i] ELSE NoneVal,
           IF i <= Len(toks) THEN toks[i] ELSE NoneVal >>]

\* dict(pairs): a later pair with the same key replaces the earlier one.
Dict(pairs) ==
    [k \in {pairs[i][1] : i \in DOMAIN pairs} |->
        LET at == {i \in DOMAIN pairs : pairs[i][1] = k}
        IN  pairs[CHOOSE i \in at : \A m \in at : i >= m][2]]

\* dict.get(key): None for a missing key.
Get(d, k) == IF k \in DOMAIN d THEN d[k] ELSE NoneVal

\* A table is a dict of rows in insertion order: a sequence of entries with
\* distinct keys.
TableKeys(t) == [i \in DOMAIN t |-> t[i].key]

TableHas(t, k) == \E i \in DOMAIN t : t[i].key = k

TableGet(t, k) == t[CHOOSE i \in DOMAIN t : t[i].key = k].row

TablePut_KeepFirst(t, k, r) ==
    IF TableHas(t, k) THEN t ELSE Append(t, [key |-> k, row |-> r])

\* final[key] = row: a new key is appended, a known key keeps its place.
TablePut(t, k, r) ==
    IF TableHas(t, k)
    THEN [i \in DOMAIN t |-> IF t[i].key = k THEN [key |-> k, row |-> r] ELSE t[i]]
    ELSE Append(t, [key |-> k, row |-> r])

\* extractor, lines 198-200: the list of rows becomes a dict keyed by Length.
RECURSIVE FinalFrom(_, _, _)
FinalFrom(rows, i, final) ==
    IF i > Len(rows) THEN final
    ELSE FinalFrom(rows, i + 1, TablePut(final, Get(rows[i], W_Length), rows[i]))

Final(rows) == FinalFrom(rows, 1, << >>)

\* os.path.basename(os.path.dirname(address)) of the i-th address.
FolderName(i) == << "S", "W", i >>

\* A slip of lines 261-266: every depth field reads the 'Depth' column.
FromDepth_AlwaysDepthColumn(dp, key, name) ==
    IF TableHas(dp, key) THEN Get(TableGet(dp, key), W_Depth) ELSE NoneVal

\* A slip of line 251: the branch of the keys depth lacks is always taken.
FromDepth_NeverFound(dp, key, name) == NoneVal

\* concatenate_molecules_summary, lines 251 and 261-266, 277-282: a field of
\* the depth row of the key, None when depth has no such key.
FromDepth(dp, key, name) ==
    IF TableHas(dp, key) THEN Get(TableGet(dp, key), name) ELSE NoneVal

\* concatenate_molecules_summary, lines 251-282: the record of one key.
Relevant(st, dp, key, input_folder_name) ==
    LET s == TableGet(st, key)
    IN  [Folder_name |-> input_folder_name,
         Component |-> Get(s, W_Component),
         Segments |-> Get(s, W_Segments),
         Links |-> Get(s, W_Links),
         Length |-> Get(s, W_Length),
         N50 |-> Get(s, W_N50),
         Longest_segment |-> Get(s, Longest_segment),
         Status |-> Get(s, W_Status),
         Depth |-> FromDepth(dp, key, W_Depth),
         Starting_gene |-> FromDepth(dp, key, Starting_gene),
         Position |-> FromDepth(dp, key, W_Position),
         Strand |-> FromDepth(dp, key, W_Strand),
         Identity |-> FromDepth(dp, key, W_Identity),
         Coverage |-> FromDepth(dp, key, W_Coverage)]

\* A slip of line 239: only the keys depth has too get a row (an inner join).
MoleculeRows_InnerJoin(st, dp, input_folder_name) ==
    LET both == SelectSeq(st, LAMBDA e : TableHas(dp, e.key))
    IN  [i \in DOMAIN both |->
            [kind |-> "row", rec |-> Relevant(st, dp, both[i].key, input_folder_name)]]

\* concatenate_molecules_summary, lines 239-284: one row per key of status.
MoleculeRows(st, dp, input_folder_name) ==
    [i \in DOMAIN st |->
        [kind |-> "row", rec |-> Relevant(st, dp, st[i].key, input_folder_name)]]

\* concatenate_assemblies_summary, lines 466-476.
AssemblyRow(b, al, input_folder_name) ==
    [kind |-> "row",
     rec |-> [Folder_name |-> input_folder_name,
              Kmer_best |-> b[1],
              Contigs_best |-> b[2],
              Dead_ends_best |-> b[3],
              Score_best |-> b[4],
              Total_read_count |-> al[1],
              Fully_aligned_reads |-> al[2],
              Partially_aligned_reads |-> al[3],
              Unaligned_reads |-> al[4],
              Total_bases_aligned |-> al[5],
              Mean_alignment_identity |-> al[6]]]

\* writer.writeheader(), lines 329 and 516.
HeaderRow == [kind |-> "header"]

---------------------------------------------------------------------------
(* The lines the logs of the model are made of.                            *)

Blank == << NL >>

\* "Component Segments  Links Length N50 Longest segment Status\n"
StatusHeader ==
    W_Component \o << SP >> \o W_Segments \o << SP, SP >> \o W_Links \o << SP >>
    \o W_Length \o << SP >> \o W_N50 \o << SP >> \o W_Longest \o << SP >>
    \o W_segment \o << SP >> \o W_Status \o << NL >>

\* "Segment Length  Depth Starting gene Position Strand Identity Coverage\n"
DepthHeader ==
    W_Segment \o << SP >> \o W_Length \o << SP, SP >> \o W_Depth \o << SP >>
    \o W_Starting \o << SP >> \o W_gene \o << SP >> \o W_Position \o << SP >>
    \o W_Strand \o << SP >> \o W_Identity \o << SP >> \o W_Coverage \o << NL >>

\* The line without its newline: the last line of a file may lack it.
Unterminated(l) == SubSeq(l, 1, Len(l) - 1)

\* "K-mer  Contigs Dead ends Score\n"
KmerHeader ==
    W_Kmer \o << SP, SP >> \o W_Contigs \o << SP >> \o W_Dead \o << SP >>
    \o W_ends \o << SP >> \o W_Score \o << NL >>

\* "Read alignment summary\n"
AlignmentHeader ==
    W_Read \o << SP >> \o W_alignment \o << SP >> \o W_summary \o << NL >>

\* "K-mer  Contigs Dead ends Score Read alignment summary\n": a line that
\* matches the pattern of line 531 and the pattern of line 534.
BothHeader == Unterminated(KmerHeader) \o << SP >> \o AlignmentHeader

\* " 1 7  3 7 none found b c d\n": eight tokens.
RowFull ==
    << SP, "1", SP, "7", SP, SP, "3", SP, "7", SP >> \o W_none \o << SP >>
    \o W_found \o << SP, "b", SP, "c", SP, "d", NL >>

\* "3 7 0 7\n": four tokens, the Length of RowFull under either header.
RowPart == << "3", SP, "7", SP, "0", SP, "7", NL >>

\* A row of eight tokens whose first token is the character one half.
RowHalf ==
    << OneHalf, SP, "5", SP, "0", SP, "5", SP, "e", SP, "f", SP, "g", TAB, "h", NL >>

\* " 7 5 0 9 <-best\n": the K-mer table's row of the final parameter set.
BestLine ==
    << SP, "7", SP, "5", SP, "0", SP, "9", SP, "<", "-" >> \o W_best \o << NL >>

\* "best\n"
BestOnly == W_best \o << NL >>

\* "----\n"
Dashes == W_dashes \o W_dashes \o << NL >>

\* "ab c:  64\n"
ValueA == << "a", "b", SP, "c", ":", SP, SP, "6", "4", NL >>

\* "id:\t9%\n"
ValueB == << "i", "d", ":", TAB, "9", "%", NL >>

\* The lines the logs of the model hold, by the place of the line in the log:
\* between the tables, in a Status or Depth table, in a K-mer table, in a
\* Read alignment summary section; and the lines extract_alignment_summary
\* is given when it is called on its own.
Catalogue(s, at) ==
    IF s = "molecules"
    THEN IF at = "scan"
         THEN {Blank, StatusHeader, DepthHeader, KmerHeader}
         ELSE {Blank, RowFull, RowPart, RowHalf, DepthHeader}
    ELSE IF s = "assemblies"
    THEN IF at = "scan" THEN {Blank, KmerHeader, AlignmentHeader, BothHeader}
         ELSE IF at = "best_k_mer" THEN {RowPart, BestLine, BestOnly}
         ELSE {Blank, ValueA}
    ELSE {Blank, Dashes, ValueA, ValueB, RowFull}

\* The lines a log of the model can end with, without a newline.
LastLines(s, at) ==
    IF s = "molecules"
    THEN IF at = "scan" THEN {} ELSE {Unterminated(RowPart)}
    ELSE IF at = "alignment" THEN {Unterminated(BestOnly), Unterminated(ValueA)}
    ELSE {}

\* What reading one more line of a log can give: <<the line, it is the last>>.
NextLines(s, at) ==
    {<< l, FALSE >> : l \in Catalogue(s, at)}
    \cup {<< l, TRUE >> : l \in LastLines(s, at)}

---------------------------------------------------------------------------
(* The two sessions: one call of molecules_summary or assemblies_summary   *)
(* over a list of runs.  The lines of a log are chosen as they are read.   *)

harness == << tk_words, tk_gaps, tk_tokens >>

\* The variables of a session before its first step.
Fresh ==
    /\ run = 0
    /\ nread = 0
    /\ eof = FALSE
    /\ line = << >>
    /\ headers = << >>
    /\ target = "none"
    /\ extracted_table = << >>
    /\ ret = << >>
    /\ status = << >>
    /\ depth = << >>
    /\ best = << >>
    /\ alignment_summary_list = Unbound
    /\ alignment_local = << >>
    /\ outfile = << >>
    /\ error = << "none", "none" >>
    /\ body = << >>
    /\ kmer_seen = FALSE
    /\ alignment_from = 0
    /\ taken = << >>

Init ==
    /\ session \in {"molecules", "assemblies"}
    /\ pc = "open"
    /\ Fresh
    /\ tk_words = << >>
    /\ tk_gaps = << >>
    /\ tk_tokens = << >>

OpenAppend_Truncate(file, rows) == rows

\* open(path, 'a') and the rows written before the file is closed (lines 319,
\* 232, 461 and 507): what the file held stays, the rows come after it.
OpenAppend(file, rows) == file \o rows

\* Lines 319-329 and 507-516: the output file is opened and its header written.
WriteHeader ==
    /\ pc = "open"
    /\ outfile' = OpenAppend(outfile, << HeaderRow >>)
    /\ pc' = "runs"
    /\ UNCHANGED << session, run, nread, eof, line, headers, target,
                    extracted_table, ret, status, depth, best,
                    alignment_summary_list, alignment_local, error, body,
                    kmer_seen, alignment_from, harness, taken >>

\* Lines 331-340 and 518-526: the next address of file_addresses is opened.
NextRun ==
    /\ pc = "runs"
    /\ run < MaxRuns
    /\ run' = run + 1
    /\ eof' = FALSE
    /\ kmer_seen' = FALSE
    /\ IF session = "molecules"
       THEN status' = << >> /\ depth' = << >> /\ best' = best
       ELSE best' = << >> /\ status' = status /\ depth' = depth
    /\ pc' = "scan"
    /\ UNCHANGED << session, nread, line, headers, target, extracted_table, ret,
                    alignment_summary_list, alignment_local, outfile, error,
                    body, alignment_from, harness, taken >>

\* Lines 372 and 546: file_addresses is exhausted, the function returns True.
Return ==
    /\ pc = "runs"
    /\ pc' = "done"
    /\ UNCHANGED << session, run, nread, eof, line, headers, target,
                    extracted_table, ret, status, depth, best,
                    alignment_summary_list, alignment_local, outfile, error,
                    body, kmer_seen, alignment_from, harness, taken >>

\* The open file gives one more line.
LineBudget(s) ==
    IF s = "molecules" THEN MaxMolLines
    ELSE IF s = "assemblies" THEN MaxAsmLines
    ELSE MaxAlignLines

CanRead == ~eof /\ nread < LineBudget(session)

\* molecules_summary, lines 342-366: the dispatch loop takes a line; a header
\* line starts an extractor call on the same file.
MolReadLine ==
    /\ session = "molecules" /\ pc = "scan" /\ CanRead
    /\ \E nl \in NextLines(session, pc) :
        /\ line' = nl[1]
        /\ eof' = nl[2]
        /\ taken' = << nl[1], "molecules_summary" >>
        /\ nread' = nread + 1
        /\ IF IsStatusHeader(nl[1])
           THEN /\ headers' = HeaderTokenizer(nl[1],
                                  W_Longest \o << SP >> \o W_segment, Longest_segment)
                /\ target' = "status"
                /\ pc' = "extractor"
           ELSE IF IsDepthHeader(nl[1])
           THEN /\ headers' = HeaderTokenizer(nl[1],
                                  W_Starting \o << SP >> \o W_gene, Starting_gene)
                /\ target' = "depth"
                /\ pc' = "extractor"
           ELSE UNCHANGED << headers, target, pc >>
    /\ extracted_table' = << >>
    /\ body' = << >>
    /\ UNCHANGED << session, run, ret, status, depth, best,
                    alignment_summary_list, alignment_local, outfile, error,
                    kmer_seen, alignment_from, harness >>

EndOfTable_AtHeader(row) == row = Blank \/ IsStatusHeader(row) \/ IsDepthHeader(row)

\* extractor, lines 176-177: the blank line that ends a table.
EndOfTable(row) == row = Blank

\* extractor, lines 173-196: one row of the table.
ExtractorRow ==
    /\ pc = "extractor" /\ CanRead
    /\ \E nl \in {n \in NextLines(session, pc) : Len(body) < MaxRows \/ n[1] = Blank} :
        LET row == nl[1]
            line_list == RowTokenizer(row)
        IN  /\ eof' = nl[2]
            /\ taken' = << nl[1], "extractor" >>
            /\ nread' = nread + 1
            /\ IF EndOfTable(row)
               THEN /\ ret' = Final(extracted_table)
                    /\ pc' = "extractor_return"
                    /\ UNCHANGED << extracted_table, body >>
               ELSE /\ body' = Append(body, row)
                    /\ extracted_table' =
                         IF ~IsNumeric(line_list[1]) THEN extracted_table
                         ELSE Append(extracted_table, Dict(ZipLongest(headers, line_list)))
                    /\ UNCHANGED << ret, pc >>
    /\ UNCHANGED << session, run, line, headers, target, status, depth, best,
                    alignment_summary_list, alignment_local, outfile, error,
                    kmer_seen, alignment_from, harness >>

\* extractor, lines 173 and 198-202: the file ends inside the table.
ExtractorEnd ==
    /\ pc = "extractor"
    /\ eof' = TRUE
    /\ ret' = Final(extracted_table)
    /\ pc' = "extractor_return"
    /\ UNCHANGED << session, run, nread, line, headers, target, extracted_table,
                    status, depth, best, alignment_summary_list, alignment_local,
                    outfile, error, body, kmer_seen, alignment_from, harness, taken >>

\* molecules_summary, lines 354-366: the table is stored; the second test of
\* the loop body sees the same line.
ExtractorReturn ==
    /\ pc = "extractor_return"
    /\ IF target = "status"
       THEN status' = ret /\ depth' = depth
       ELSE depth' = ret /\ status' = status
    /\ IF target = "status" /\ IsDepthHeader(line)
       THEN /\ headers' = HeaderTokenizer(line,
                              W_Starting \o << SP >> \o W_gene, Starting_gene)
            /\ target' = "depth"
            /\ pc' = "extractor"
       ELSE /\ target' = "none"
            /\ pc' = "scan"
            /\ headers' = headers
    /\ ret' = << >>
    /\ extracted_table' = << >>
    /\ body' = << >>
    /\ UNCHANGED << session, run, nread, eof, line, best, alignment_summary_list,
                    alignment_local, outfile, error, kmer_seen, alignment_from,
                    harness, taken >>

\* molecules_summary, lines 342 and 369-370: the log ends, the rows of the run
\* are appended to the output file.
MolEndOfLog ==
    /\ session = "molecules" /\ pc = "scan"
    /\ eof' = TRUE
    /\ outfile' = OpenAppend(outfile, MoleculeRows(status, depth, FolderName(run)))
    /\ pc' = "runs"
    /\ UNCHANGED << session, run, nread, line, headers, target, extracted_table,
                    ret, status, depth, best, alignment_summary_list,
                    alignment_local, error, body, kmer_seen, alignment_from,
                    harness, taken >>


\* A raised exception nothing catches ends the session.
Raise(exception, where) ==
    /\ error' = << exception, where >>
    /\ pc' = "crashed"

\* assemblies_summary, lines 528-537: the dispatch loop takes a line.
AsmReadLine ==
    /\ session = "assemblies" /\ pc = "scan" /\ CanRead
    /\ \E nl \in NextLines(session, pc) :
        /\ line' = nl[1]
        /\ eof' = nl[2]
        /\ taken' = << nl[1], "assemblies_summary" >>
        /\ nread' = nread + 1
        /\ IF IsKmerHeader(nl[1])
           THEN pc' = "best_k_mer" /\ kmer_seen' = TRUE
           ELSE IF IsAlignmentHeader(nl[1])
           THEN pc' = "alignment" /\ kmer_seen' = kmer_seen
           ELSE UNCHANGED << pc, kmer_seen >>
    /\ alignment_local' = << >>
    /\ body' = << >>
    /\ UNCHANGED << session, run, headers, target, extracted_table, ret, status,
                    depth, best, alignment_summary_list, outfile, error,
                    alignment_from, harness >>

\* extract_best_k_mer, lines 391-397: one line of the K-mer table.
BestRow ==
    /\ pc = "best_k_mer" /\ CanRead
    /\ \E nl \in NextLines(session, pc) :
        LET best_line == nl[1]
        IN  /\ eof' = nl[2]
            /\ taken' = << nl[1], "extract_best_k_mer" >>
            /\ nread' = nread + 1
            /\ body' = Append(body, best_line)
            /\ IF Contains(best_line, W_best)
               THEN ret' = BestTokenizer(best_line) /\ pc' = "best_return"
               ELSE UNCHANGED << ret, pc >>
    /\ UNCHANGED << session, run, line, headers, target, extracted_table, status,
                    depth, best, alignment_summary_list, alignment_local, outfile,
                    error, kmer_seen, alignment_from, harness >>

\* extract_best_k_mer, lines 391 and 399: the file ends before a line with
\* 'best'; `return best` reads a local that was never assigned.
BestEnd ==
    /\ pc = "best_k_mer"
    /\ eof' = TRUE
    /\ Raise("UnboundLocalError", "extract_best_k_mer")
    /\ UNCHANGED << session, run, nread, line, headers, target, extracted_table,
                    ret, status, depth, best, alignment_summary_list,
                    alignment_local, outfile, body, kmer_seen, alignment_from,
                    harness, taken >>

\* assemblies_summary, lines 532-537: best is stored; the second test of the
\* loop body sees the same line.
BestReturn ==
    /\ pc = "best_return"
    /\ best' = ret
    /\ ret' = << >>
    /\ body' = << >>
    /\ pc' = IF IsAlignmentHeader(line) THEN "alignment" ELSE "scan"
    /\ UNCHANGED << session, run, nread, eof, line, headers, target,
                    extracted_table, status, depth, alignment_summary_list,
                    alignment_local, outfile, error, kmer_seen, alignment_from,
                    harness, taken >>

\* extract_alignment_summary, lines 420-436: one line of the section.
AlignmentRow ==
    /\ pc = "alignment" /\ CanRead
    /\ \E nl \in NextLines(session, pc) :
        LET alignment_summary == nl[1]
            tokens == AlignmentTokenizer(alignment_summary)
        IN  /\ eof' = nl[2]
            /\ taken' = << nl[1], "extract_alignment_summary" >>
            /\ nread' = nread + 1
            /\ IF alignment_summary = Blank
               THEN /\ ret' = alignment_local
                    /\ pc' = "alignment_return"
                    /\ UNCHANGED << alignment_local, body, error >>
               ELSE /\ body' = Append(body, alignment_summary)
                    /\ IF Contains(alignment_summary, W_dashes)
                       THEN UNCHANGED << alignment_local, ret, pc, error >>
                       ELSE IF Len(tokens) < 2
                       THEN /\ Raise("IndexError", "extract_alignment_summary")
                            /\ UNCHANGED << alignment_local, ret >>
                       ELSE /\ alignment_local' = Append(alignment_local, tokens[2])
                            /\ UNCHANGED << ret, pc, error >>
    /\ UNCHANGED << session, run, line, headers, target, extracted_table, status,
                    depth, best, alignment_summary_list, outfile, kmer_seen,
                    alignment_from, harness >>

\* extract_alignment_summary, lines 420 and 438: the file ends in the section.
AlignmentEnd ==
    /\ pc = "alignment"
    /\ eof' = TRUE
    /\ ret' = alignment_local
    /\ pc' = "alignment_return"
    /\ UNCHANGED << session, run, nread, line, headers, target, extracted_table,
                    status, depth, best, alignment_summary_list, alignment_local,
                    outfile, error, body, kmer_seen, alignment_from, harness, taken >>

\* assemblies_summary, lines 536-537: the list is stored.
AlignmentReturn ==
    /\ pc = "alignment_return"
    /\ alignment_summary_list' = ret
    /\ alignment_from' = run
    /\ ret' = << >>
    /\ alignment_local' = << >>
    /\ body' = << >>
    /\ pc' = "scan"
    /\ UNCHANGED << session, run, nread, eof, line, headers, target,
                    extracted_table, status, depth, best, outfile, error,
                    kmer_seen, harness, taken >>

\* The number of fields concatenate_assemblies_summary indexes in best
\* (lines 467-470) and in alignment_summary_list (lines 471-476).
BestFields == 4

AlignmentFields == 6

\* assemblies_summary, lines 528 and 540-544: the log ends; a run with a best
\* row has its record appended to the output file.
AsmEndOfLog ==
    /\ session = "assemblies" /\ pc = "scan"
    /\ eof' = TRUE
    /\ IF Len(best) = 0
       THEN pc' = "runs" /\ UNCHANGED << outfile, error >>
       ELSE IF alignment_summary_list = Unbound
       THEN Raise("UnboundLocalError", "assemblies_summary") /\ UNCHANGED outfile
       ELSE IF Len(best) < BestFields \/ Len(alignment_summary_list) < AlignmentFields
       THEN Raise("IndexError", "concatenate_assemblies_summary") /\ UNCHANGED outfile
       ELSE /\ outfile' = OpenAppend(outfile,
                   << AssemblyRow(best, alignment_summary_list, FolderName(run)) >>)
            /\ pc' = "runs"
            /\ UNCHANGED error
    /\ UNCHANGED << session, run, nread, line, headers, target, extracted_table,
                    ret, status, depth, best, alignment_summary_list,
                    alignment_local, body, kmer_seen, alignment_from, harness, taken >>

Next ==
    \/ WriteHeader
    \/ NextRun
    \/ Return
    \/ MolReadLine
    \/ ExtractorRow
    \/ ExtractorEnd
    \/ ExtractorReturn
    \/ MolEndOfLog
    \/ AsmReadLine
    \/ BestRow
    \/ BestEnd
    \/ BestReturn
    \/ AlignmentRow
    \/ AlignmentEnd
    \/ AlignmentReturn
    \/ AsmEndOfLog

Spec == Init /\ [][Next]_vars


---------------------------------------------------------------------------
(* extract_alignment_summary called on its own, on a file of any lines.    *)

InitAlign ==
    /\ session = "alignment"
    /\ pc = "alignment"
    /\ Fresh
    /\ tk_words = << >>
    /\ tk_gaps = << >>
    /\ tk_tokens = << >>

NextAlign ==
    \/ AlignmentRow
    \/ AlignmentEnd

SpecAlign == InitAlign /\ [][NextAlign]_vars

---------------------------------------------------------------------------
(* The tokenizer of extractor applied to lines of the same words with      *)
(* different whitespace around them.                                       *)

Words == {W_none, W_found, << "7" >>}

WordLists == UNION {[1..n -> Words] : n \in 0..MaxWords}

\* The whitespace between two words, and before the first or after the last.
GapRuns == {<< SP >>, << SP, SP >>, << TAB >>}

EdgeRuns == {<< >>, << SP >>, << NL >>}

\* One space between consecutive words, nothing around them.
SingleSpaced(words) ==
    [i \in 1..(Len(words) + 1) |-> IF i = 1 \/ i = Len(words) + 1 THEN << >> ELSE << SP >>]

\* The line: gaps[1], then each word followed by its gap.
RECURSIVE RenderFrom(_, _, _)
RenderFrom(words, gaps, i) ==
    IF i > Len(words) THEN << >>
    ELSE words[i] \o gaps[i + 1] \o RenderFrom(words, gaps, i + 1)

Render(words, gaps) == gaps[1] \o RenderFrom(words, gaps, 1)

InitTok ==
    /\ session = "tokenizer"
    /\ pc = "tokenizer"
    /\ Fresh
    /\ tk_words \in WordLists
    /\ tk_gaps = SingleSpaced(tk_words)
    /\ tk_tokens = RowTokenizer(Render(tk_words, tk_gaps))

\* The whitespace at one place of the line is changed, the line tokenized.
Respace ==
    /\ pc = "tokenizer"
    /\ \E i \in DOMAIN tk_gaps :
        \E ws \in (IF i = 1 \/ i = Len(tk_gaps) THEN EdgeRuns ELSE GapRuns) :
            /\ tk_gaps' = [tk_gaps EXCEPT ![i] = ws]
            /\ tk_tokens' = RowTokenizer(Render(tk_words, tk_gaps'))
    /\ UNCHANGED << session, pc, run, nread, eof, line, headers, target,
                    extracted_table, ret, status, depth, best,
                    alignment_summary_list, alignment_local, outfile, error,
                    body, kmer_seen, alignment_from, taken, tk_words >>

NextTok == Respace

SpecTok == InitTok /\ [][NextTok]_vars


---------------------------------------------------------------------------
(* The claims.                                                             *)

\* The rows the output file holds for the i-th run.
RowsOfRun(i) ==
    SelectSeq(outfile, LAMBDA r : r.kind = "row" /\ r.rec.Folder_name = FolderName(i))

\* The session stands between two runs, the rows of run `run` written.
RunFinished == pc = "runs" /\ run >= 1

\* C1: extract_best_k_mer, called after a K-mer header line, returns an empty
\* result and does not raise when the source is exhausted without a line
\* containing 'best'; the run is then treated like one without K-mer table and
\* the session goes on.
C1_BestAbsentReturnsEmpty ==
    (session = "assemblies" /\ kmer_seen /\ eof /\ best = << >>
        /\ pc \notin {"best_k_mer", "best_return"})
    => (error[2] # "extract_best_k_mer" /\ RowsOfRun(run) = << >>)

\* C2: runs are processed independently: the row written for a run holds
\* alignment values extracted from that run's own log, never those a previous
\* run left behind.
C2_RowFromOwnLog ==
    (session = "assemblies" /\ run >= 1 /\ RowsOfRun(run) # << >>)
    => alignment_from = run

\* C3: a run whose log has no K-mer header line gets no row in the assemblies
\* summary, raises no error and lets the later runs be processed; its rows in
\* the molecules summary are those of its Status and Depth tables.
C3_NoKmerTableNoRow ==
    /\ (session = "assemblies" /\ run >= 1 /\ ~kmer_seen)
       => (error[1] = "none" /\ RowsOfRun(run) = << >>)
    /\ (session = "molecules" /\ RunFinished)
       => RowsOfRun(run) = MoleculeRows(status, depth, FolderName(run))


\* The fields of a MergedMoleculeRecord and the table column each is read from.
StatusFields ==
    {"Component", "Segments", "Links", "Length", "N50", "Longest_segment", "Status"}

DepthFields ==
    {"Depth", "Starting_gene", "Position", "Strand", "Identity", "Coverage"}

Column(f) ==
    CASE f = "Component" -> W_Component
      [] f = "Segments" -> W_Segments
      [] f = "Links" -> W_Links
      [] f = "Length" -> W_Length
      [] f = "N50" -> W_N50
      [] f = "Longest_segment" -> Longest_segment
      [] f = "Status" -> W_Status
      [] f = "Depth" -> W_Depth
      [] f = "Starting_gene" -> Starting_gene
      [] f = "Position" -> W_Position
      [] f = "Strand" -> W_Strand
      [] f = "Identity" -> W_Identity
      [] f = "Coverage" -> W_Coverage

KeySet(t) == {t[i].key : i \in DOMAIN t}

\* C4: KeyMerger is a left join driven by Status: the rows of a run are one
\* per key of its Status table, in the order of the Status keys, also when
\* Depth is empty, and no row is written for a key only Depth has.
C4_LeftJoinOnStatus ==
    (session = "molecules" /\ RunFinished) =>
        LET rows == RowsOfRun(run)
        IN  /\ Len(rows) = Len(status)
            /\ \A i \in DOMAIN rows : rows[i].rec.Length = status[i].key
            /\ \A k \in KeySet(depth) \ KeySet(status) :
                   \A i \in DOMAIN rows : rows[i].rec.Length # k

\* Reached: a run with rows written and a key only Depth has.
C4_Witness ==
    /\ session = "molecules" /\ RunFinished
    /\ KeySet(depth) \ KeySet(status) # {}
    /\ Len(RowsOfRun(run)) >= 1

\* Reached: a run with rows in Status and an empty Depth.
C4_WitnessEmptyDepth ==
    session = "molecules" /\ RunFinished /\ depth = << >> /\ Len(status) = 2

\* C5: in the record of a Status key the six depth fields are those of the
\* Depth row of the same key, verbatim, or all None when Depth has no such
\* key; the seven status fields are those of the Status row, verbatim.
C5_FieldsVerbatim ==
    (session = "molecules" /\ RunFinished) =>
        LET rows == RowsOfRun(run)
        IN  /\ Len(rows) = Len(status)
            /\ \A i \in DOMAIN rows :
                /\ \A f \in StatusFields :
                       rows[i].rec[f] = Get(status[i].row, Column(f))
                /\ \A f \in DepthFields :
                       IF \E j \in DOMAIN depth : depth[j].key = status[i].key
                       THEN \E j \in DOMAIN depth :
                               /\ depth[j].key = status[i].key
                               /\ rows[i].rec[f] = Get(depth[j].row, Column(f))
                       ELSE rows[i].rec[f] = NoneVal

\* Reached: a run with a row whose key Depth has, with values in the depth
\* fields, and a row whose key Depth lacks.
C5_Witness ==
    /\ session = "molecules" /\ RunFinished
    /\ \E i \in DOMAIN RowsOfRun(run) :
           /\ status[i].key \in KeySet(depth)
           /\ RowsOfRun(run)[i].rec.Depth # NoneVal
    /\ \E i \in DOMAIN RowsOfRun(run) : status[i].key \notin KeySet(depth)

AllDepthNull(rec) == \A f \in DepthFields : rec[f] = NoneVal

AllDepthNonNull(rec) == \A f \in DepthFields : rec[f] # NoneVal

\* C6, as claimed: in every record written the six depth fields are all None
\* or all not None, never partially None.
C6_DepthBlockAllOrNothing ==
    session = "molecules" =>
        \A i \in DOMAIN outfile :
            outfile[i].kind = "row" =>
                AllDepthNull(outfile[i].rec) \/ AllDepthNonNull(outfile[i].rec)

\* C6, amended: the six depth fields are all None when Depth lacks the key and
\* all not None when the Depth row of the key has a value in every column of
\* a header naming the six; otherwise a depth field is None exactly when the
\* Depth row has no value in its column (the line had fewer tokens than the
\* header has columns), so the block can be partially None.
C6_DepthBlockFollowsDepthRow ==
    (session = "molecules" /\ RunFinished) =>
        LET rows == RowsOfRun(run)
        IN  \A i \in DOMAIN rows :
                IF status[i].key \notin KeySet(depth)
                THEN AllDepthNull(rows[i].rec)
                ELSE \E j \in DOMAIN depth :
                        /\ depth[j].key = status[i].key
                        /\ \A f \in DepthFields :
                               rows[i].rec[f] = NoneVal
                                   <=> Get(depth[j].row, Column(f)) = NoneVal
                        /\ ((\A f \in DepthFields : Column(f) \in DOMAIN depth[j].row)
                              /\ (\A h \in DOMAIN depth[j].row : depth[j].row[h] # NoneVal))
                           => AllDepthNonNull(rows[i].rec)

\* Reached: a record whose depth fields are partially None, from a Depth row
\* shorter than the header, beside a record whose six fields are all set.
C6_Witness ==
    /\ session = "molecules" /\ RunFinished
    /\ \E i \in DOMAIN outfile :
           /\ outfile[i].kind = "row"
           /\ ~AllDepthNull(outfile[i].rec)
           /\ ~AllDepthNonNull(outfile[i].rec)
    /\ \E i \in DOMAIN outfile :
           outfile[i].kind = "row" /\ AllDepthNonNull(outfile[i].rec)

\* The Length field of the row built from the tokens under the headers.
LengthField(hs, toks) ==
    LET at == {i \in 1..Len(hs) : hs[i] = W_Length}
    IN  IF at = {} THEN NoneVal
        ELSE LET last == CHOOSE i \in at : \A m \in at : i >= m
             IN  IF last <= Len(toks) THEN toks[last] ELSE NoneVal

AllDigits(tok) == tok # << >> /\ \A i \in 1..Len(tok) : tok[i] \in Digits

AllNumericChars(tok) == tok # << >> /\ \A i \in 1..Len(tok) : tok[i] \in NumericChars

\* C7, as claimed: the keys of the table extractor returns after a Status
\* header are the Length fields of exactly the rows, between the header and
\* the blank line or the end of the file, whose first token is all digits.
C7_KeysOfDigitRows ==
    (pc = "extractor_return" /\ target = "status") =>
        KeySet(ret) = {LengthField(headers, toks) :
                          toks \in {t \in {RowTokenizer(body[j]) : j \in DOMAIN body} :
                                      AllDigits(t[1])}}

\* C7, amended: the keys are the Length fields of exactly the rows whose first
\* token is not empty and made of characters str.isnumeric() accepts: the
\* digits, and other numeric characters such as the fraction one half.
C7_KeysOfNumericRows ==
    (pc = "extractor_return" /\ target = "status") =>
        KeySet(ret) = {LengthField(headers, toks) :
                          toks \in {t \in {RowTokenizer(body[j]) : j \in DOMAIN body} :
                                      AllNumericChars(t[1])}}

\* Reached: a Status table with a row of digits, a row with another numeric
\* first token and a row extractor drops.
C7_Witness ==
    /\ pc = "extractor_return" /\ target = "status"
    /\ \E i \in DOMAIN body : AllDigits(RowTokenizer(body[i])[1])
    /\ \E i \in DOMAIN body :
           /\ AllNumericChars(RowTokenizer(body[i])[1])
           /\ ~AllDigits(RowTokenizer(body[i])[1])
    /\ \E i \in DOMAIN body : ~AllNumericChars(RowTokenizer(body[i])[1])
    /\ Cardinality(KeySet(ret)) = 2


EndsWith(w, p) == Len(p) <= Len(w) /\ IsPrefixAt(w, p, Len(w) - Len(p) + 1)

\* The words, a word ending in 'none' and the next word starting with 'found'
\* joined by '_' when exactly one space stands between them.
RECURSIVE JoinedFrom(_, _, _, _)
JoinedFrom(words, gaps, i, acc) ==
    IF i > Len(words) THEN acc
    ELSE IF /\ i > 1
            /\ gaps[i] = << SP >>
            /\ EndsWith(words[i - 1], W_none)
            /\ IsPrefixAt(words[i], W_found, 1)
         THEN JoinedFrom(words, gaps, i + 1,
                  [acc EXCEPT ![Len(acc)] = @ \o << "_" >> \o words[i]])
         ELSE JoinedFrom(words, gaps, i + 1, Append(acc, words[i]))

Joined(words, gaps) ==
    IF words = << >> THEN << << >> >> ELSE JoinedFrom(words, gaps, 1, << >>)

\* A word ending in 'none' is followed by a word starting with 'found'.
HasNoneFoundPair(words) ==
    \E i \in 2..Len(words) :
        EndsWith(words[i - 1], W_none) /\ IsPrefixAt(words[i], W_found, 1)

\* C8, as claimed: the tokens of a line are those of the line of the same
\* words with one space between them, whatever whitespace surrounds the
\* words, also for lines with the phrase 'none found'.
C8_WhitespaceInsensitive ==
    tk_tokens = RowTokenizer(Render(tk_words, SingleSpaced(tk_words)))

\* C8, amended: the tokens are the words, whatever whitespace surrounds them,
\* but for a word ending in 'none' followed by a word starting with 'found':
\* the two make one token, joined by '_', exactly when a single space stands
\* between them.  Lines without such a pair tokenize as their single-spaced
\* form does.
C8_InsensitiveButForNoneFound ==
    /\ tk_tokens = Joined(tk_words, tk_gaps)
    /\ ~HasNoneFoundPair(tk_words) => C8_WhitespaceInsensitive

\* Reached: a line of three words, the whitespace changed, with 'none found'
\* kept as one token; and one with the pair apart.
C8_Witness ==
    /\ Len(tk_words) = 3
    /\ tk_gaps # SingleSpaced(tk_words)
    /\ tk_gaps[1] # << >>
    /\ \E i \in DOMAIN tk_tokens : tk_tokens[i] = none_found

\* The maximal runs of characters other than whitespace.
RECURSIVE WordsFrom(_, _, _, _)
WordsFrom(l, i, word, acc) ==
    IF i > Len(l) THEN (IF word = << >> THEN acc ELSE Append(acc, word))
    ELSE IF l[i] \in Whitespace
         THEN WordsFrom(l, i + 1, << >>, IF word = << >> THEN acc ELSE Append(acc, word))
         ELSE WordsFrom(l, i + 1, Append(word, l[i]), acc)

WordsOf(l) == WordsFrom(l, 1, << >>, << >>)

\* extract_best_k_mer returned the words of the first line with 'best'.
BestIsFirstBestLine ==
    pc = "best_return" =>
        /\ body # << >>
        /\ Contains(body[Len(body)], W_best)
        /\ \A i \in 1..(Len(body) - 1) : ~Contains(body[i], W_best)
        /\ ret = WordsOf(body[Len(body)])

\* The four *_best columns of the row of the run are the first four of best.
BestColumnsFromBest ==
    (session = "assemblies" /\ RunFinished /\ RowsOfRun(run) # << >>) =>
        LET rec == RowsOfRun(run)[1].rec
        IN  /\ Len(RowsOfRun(run)) = 1
            /\ Len(best) >= BestFields
            /\ rec.Kmer_best = best[1]
            /\ rec.Contigs_best = best[2]
            /\ rec.Dead_ends_best = best[3]
            /\ rec.Score_best = best[4]

ValuesOf(lines) ==
    LET kept == SelectSeq(lines, LAMBDA l : ~Contains(l, W_dashes))
    IN  [i \in DOMAIN kept |-> AlignmentTokenizer(kept[i])[2]]

\* C10: extract_alignment_summary, reading up to the first blank line or the
\* end of the file, skips the lines with '--' and returns the token at index 1
\* of each other line, in line order; it returns what it has accumulated and
\* does not raise, however many values that is.
C10_ValuesWithoutRaising ==
    /\ error[1] = "none"
    /\ pc \in {"alignment", "alignment_return"} => alignment_local = ValuesOf(body)
    /\ pc = "alignment_return" => ret = alignment_local

\* The output file starts with the header row and holds no other.
HeaderFirstOnly ==
    /\ Len(outfile) >= 1
    /\ outfile[1] = HeaderRow
    /\ \A i \in 2..Len(outfile) : outfile[i].kind = "row"

\* A step leaves the rows the output file holds in place.
AppendOnly ==
    /\ Len(outfile') >= Len(outfile)
    /\ SubSeq(outfile', 1, Len(outfile)) = outfile

\* C11: in a session writing to a newly created file, the output holds exactly
\* one header row, the header comes before every data row, and no later step
\* rewrites or removes a row the file holds.
C11_HeaderOnceAppendOnly ==
    /\ [](pc # "open" => HeaderFirstOnly)
    /\ [][AppendOnly]_vars

\* Reached: a session of two runs that each wrote rows has returned.
C11_Witness ==
    /\ pc = "done" /\ run = 2
    /\ RowsOfRun(1) # << >>
    /\ RowsOfRun(2) # << >>

\* The lines of a table body that extractor keeps, each with its place in
\* the body and its tokens: << place, tokens >>.
KeptLines(lines) ==
    {p \in {<< j, RowTokenizer(lines[j]) >> : j \in DOMAIN lines} :
        AllNumericChars(p[2][1])}

\* p is the last of the kept lines whose Length field is k.
IsLastWithLength(hs, kept, k, p) ==
    /\ LengthField(hs, p[2]) = k
    /\ \A q \in kept : LengthField(hs, q[2]) = k => q[1] <= p[1]

\* C12: in one table extraction the keys of the returned table are unique, and
\* the record under a key is the one built from the last kept row of the
\* source with that Length, whatever rows with the same Length came before.
C12_LastWriteWins ==
    pc = "extractor_return" =>
        \A kept \in {KeptLines(body)} :
            /\ \A i, j \in DOMAIN ret : ret[i].key = ret[j].key => i = j
            /\ \A i \in DOMAIN ret :
                   \E p \in kept :
                       /\ IsLastWithLength(headers, kept, ret[i].key, p)
                       /\ ret[i].row = Dict(ZipLongest(headers, p[2]))
            /\ \A p \in kept :
                   \E i \in DOMAIN ret : ret[i].key = LengthField(headers, p[2])

\* Reached: a table returned from a body where two kept rows with the same
\* Length give different records.
C12_Witness ==
    /\ pc = "extractor_return"
    /\ \E p, q \in KeptLines(body) :
           /\ p[1] < q[1]
           /\ LengthField(headers, p[2]) = LengthField(headers, q[2])
           /\ Dict(ZipLongest(headers, p[2])) # Dict(ZipLongest(headers, q[2]))

\* The function that takes the next line of the open log at a place of the
\* session: the dispatch loop of the session, or the extractor that runs.
ReaderAt(p) ==
    IF p = "extractor" THEN "extractor"
    ELSE IF p = "best_k_mer" THEN "extract_best_k_mer"
    ELSE IF p = "alignment" THEN "extract_alignment_summary"
    ELSE IF session = "molecules" THEN "molecules_summary"
    ELSE "assemblies_summary"

InTable == pc \in {"extractor", "best_k_mer", "alignment"}

ReturnOf(p) ==
    IF p = "extractor" THEN "extractor_return"
    ELSE IF p = "best_k_mer" THEN "best_return"
    ELSE "alignment_return"

\* The line at which the extractor running at p stops.
IsStopLine(p, l) == IF p = "best_k_mer" THEN Contains(l, W_best) ELSE l = Blank

\* The step takes one line from the open log.
TakesLine == nread' = nread + 1

\* The cursor moves forward one line at a time, and only where the dispatch
\* loop or an extractor stands; the one that stands there takes the line.
ForwardPass ==
    \/ nread' = nread /\ taken' = taken /\ line' = line
    \/ /\ TakesLine
       /\ pc = "scan" \/ InTable
       /\ taken' = << taken'[1], ReaderAt(pc) >>

\* A line taken is seen by the dispatch loop or by the running extractor,
\* never by both.
OneConsumer ==
    TakesLine =>
        IF pc = "scan"
        THEN line' = taken'[1] /\ body' = << >>
        ELSE /\ line' = line
             /\ \/ body' = Append(body, taken'[1])
                \/ body' = body /\ IsStopLine(pc, taken'[1])

\* A running extractor takes every line up to and including its stop line: a
\* line before the stop line, header or not, is a line of the table body and
\* starts no extraction.
Contiguous ==
    InTable =>
        /\ pc' \in {pc, ReturnOf(pc), "crashed"}
        /\ TakesLine /\ ~IsStopLine(pc, taken'[1]) =>
               /\ pc' \in {pc, "crashed"}
               /\ body' = Append(body, taken'[1])
               /\ headers' = headers /\ target' = target
        /\ TakesLine /\ IsStopLine(pc, taken'[1]) => pc' = ReturnOf(pc)

Returned == pc \in {"extractor_return", "best_return", "alignment_return"}

\* C13, as claimed: one forward pass over the log, every line taken once, by
\* the dispatch loop or by one extractor; an extractor takes the lines after
\* its header up to and including its stop line, a header line in a table
\* body is not dispatched, and when an extractor has returned the dispatch
\* loop goes on with the line after the stop line.
C13_DispatchResumesAfterStopLine ==
    [][/\ ForwardPass
       /\ OneConsumer
       /\ Contiguous
       /\ Returned => nread' = nread /\ pc' = "scan"]_vars

\* C13, amended: as claimed, but the dispatch loop tests its line against
\* both header patterns one after the other: when the header line of the
\* K-mer table also holds 'Read alignment summary', extract_alignment_summary
\* runs next, from the line after the stop line of extract_best_k_mer, and the
\* dispatch loop goes on after the stop line of that second extractor.
C13_SinglePassTwoTests ==
    [][/\ ForwardPass
       /\ OneConsumer
       /\ Contiguous
       /\ Returned =>
              /\ nread' = nread
              /\ pc' = IF pc = "best_return" /\ IsAlignmentHeader(line)
                       THEN "alignment" ELSE "scan"]_vars

\* Reached: the two extractors of assemblies_summary have run one after the
\* other on one header line, the second up to its stop line.
C13_Witness ==
    /\ pc = "alignment_return" /\ line = BothHeader
    /\ best # << >> /\ ret # << >>
    /\ taken = << Blank, "extract_alignment_summary" >>

\* Reached: extractor has returned, at its stop line, a Status table whose
\* body held a line that matches the Depth header pattern.
C13_WitnessHeaderInBody ==
    /\ pc = "extractor_return" /\ target = "status"
    /\ \E i \in DOMAIN body : IsDepthHeader(body[i])
    /\ taken = << Blank, "extractor" >>

===========================================================================
